---- MODULE Spec2Model ----
(***************************************************************************)
(* The osfstorage addon of osf.io: the file-node tree with its checkout    *)
(* lock, delete and move guards (OsfStorageFileNode / OsfStorageFolder),   *)
(* file versions and tags (OsfStorageFile), materialized paths, and the    *)
(* root folder of NodeSettings.  Source: addons/osfstorage/models.py.      *)
(***************************************************************************)
EXTENDS Integers, Sequences, FiniteSets, TLC

VARIABLES
    perms,              \* node.permissions: user -> set of permission names
    kind,               \* file node id -> "file" | "folder" (is_file)
    name,               \* file node id -> name, a sequence of characters
    parent,             \* file node id -> parent id, or None
    live,               \* ids of the file nodes that exist (not trashed)
    checkout,           \* file node id -> self.checkout of the object
    stored_checkout,    \* file node id -> checkout as last persisted by save()
    logs,               \* the owning node's log, add_log appends to it
    preprint_file,      \* node.preprint_file
    is_preprint_orphan, \* node._is_preprint_orphan
    search_index,       \* files the search index holds (search.update_file)
    is_registration,    \* node.is_registration
    versions,           \* OsfStorageFile.versions of the file f
    tags,               \* OsfStorageFile.tags of the file f
    tag_table,          \* ids of the Tag objects that exist (Tag.load)
    root_node,          \* NodeSettings instance -> root_node: <<folder>>, or <<>>
    settings_saved,     \* NodeSettings instance -> has been saved
    folders,            \* root folders on_add has created, in order
    guids,              \* ids of the files a Guid refers to (Guid.find)
    pc,                 \* user -> where the user's concurrent request stands
    req_checkout,       \* user -> self.checkout of the object the request loaded
    req_target,         \* user -> the checkout argument of the request
    last                \* the call made last, its arguments and its outcome

treeVars == <<kind, name, parent, live>>
lockVars == <<perms, checkout, stored_checkout, preprint_file, is_preprint_orphan>>
fileVars == <<versions, tags, tag_table>>
settingsVars == <<root_node, settings_saved, folders>>
requestVars == <<pc, req_checkout, req_target>>
vars == <<perms, kind, name, parent, live, checkout, stored_checkout, logs,
          preprint_file, is_preprint_orphan, search_index, is_registration,
          versions, tags, tag_table, root_node, settings_saved, folders,
          guids, pc, req_checkout, req_target, last>>

None == "None"

\* ------------------------------------------------------------- bounds
MaxLog == 2
MaxVersions == 3
NumSettings == 3

\* ------------------------------------------------------ program values
READ == "read"
WRITE == "write"
ADMIN == "admin"
CHECKED_OUT == "checked_out"
CHECKED_IN == "checked_in"
FILE_TAG_ADDED == "file_tag_added"
FILE_TAG_REMOVED == "file_tag_removed"
FileNodeCheckedOutError == "FileNodeCheckedOutError"
VersionNotFoundError == "VersionNotFoundError"
NodeStateError == "NodeStateError"
InvalidTagError == "InvalidTagError"
TagNotFoundError == "TagNotFoundError"
Ok == "ok"

Users == {"u1", "u2"}
\* Permissions are stored cumulatively: admin implies write implies read.
PermLevels == {{}, {READ}, {READ, WRITE}, {READ, WRITE, ADMIN}}

\* The file nodes a project may hold: the root folder, two folders, one file.
Ids == {"r", "d", "e", "f"}
Root == "r"
TheFile == "f"
InitKind == [n \in Ids |-> IF n = TheFile THEN "file" ELSE "folder"]
\* The tree r/d/f, and the deeper tree r/d/e/f.
ShallowParent == [n \in Ids |->
    CASE n = "r" -> None [] n = "d" -> "r" [] n = "e" -> None [] n = "f" -> "d"]
DeepParent == [n \in Ids |->
    CASE n = "r" -> None [] n = "d" -> "r" [] n = "e" -> "d" [] n = "f" -> "e"]
InitName == [n \in Ids |-> IF n = Root THEN <<>> ELSE <<n>>]
AdminAndWriter ==
    [u \in Users |-> IF u = "u1" THEN {READ, WRITE, ADMIN} ELSE {READ, WRITE}]
\* Who may do what on the project; u1 is the more privileged of the two.
PermChoices ==
    {p \in [Users -> PermLevels] : WRITE \in p["u1"] /\ p["u2"] \subseteq p["u1"]}

\* move_under's name argument when no new name is given (name=None)
NoName == <<>>

NoCall == [op |-> "none"]

\* ------------------------------------------------------------ the tree
\* Folder.children: the live file nodes whose parent is n.
children(n) == {c \in live : parent[c] = n}

RECURSIVE IsCheckedOut(_)

\* OsfStorageFileNode.is_checked_out
FileNodeIsCheckedOut(n) == checkout[n] # None

\* A folder that looks at its children's own checkout only, not at theirs.
FolderIsCheckedOutShallow(n) ==
    \/ checkout[n] # None
    \/ \E c \in children(n) : checkout[c] # None

\* OsfStorageFolder.is_checked_out
FolderIsCheckedOut(n) ==
    \/ checkout[n] # None
    \/ \E c \in children(n) : IsCheckedOut(c)

\* self.is_checked_out, dispatched on the class of the node
IsCheckedOut(n) ==
    IF kind[n] = "file" THEN FileNodeIsCheckedOut(n) ELSE FolderIsCheckedOut(n)

RECURSIVE Subtree(_)
\* n and everything Folder.delete reaches from it through children
Subtree(n) == {n} \cup UNION {Subtree(c) : c \in children(n)}

\* ------------------------------------------------------------ the path
\* A join that puts a separator after every component, empty or not.
PathJoin2Naive(path, b) == path \o <<"/">> \o b

\* One step of os.path.join: component b joined to what precedes it.
PathJoin2(path, b) ==
    IF b # <<>> /\ b[1] = "/" THEN b
    ELSE IF path = <<>> \/ path[Len(path)] = "/" THEN path \o b
    ELSE path \o <<"/">> \o b

RECURSIVE PathJoin(_)
\* os.path.join(*components), for one component or more
PathJoin(components) ==
    IF Len(components) = 1 THEN components[1]
    ELSE PathJoin2(PathJoin(SubSeq(components, 1, Len(components) - 1)),
                   components[Len(components)])

RECURSIVE lineage(_)
\* lineage(): the node, its parent, and so on up to the node without parent
lineage(n) ==
    IF parent[n] = None THEN <<n>> ELSE <<n>> \o lineage(parent[n])

Reversed(seq) == [i \in 1..Len(seq) |-> seq[Len(seq) + 1 - i]]

\* OsfStorageFileNode.materialized_path
materialized_path(n) ==
    IF parent[n] = None THEN <<"/">>
    ELSE LET path == PathJoin(Reversed([i \in 1..Len(lineage(n)) |->
                                            name[lineage(n)[i]]]))
         IN  IF kind[n] = "file" THEN <<"/">> \o path
             ELSE <<"/">> \o path \o <<"/">>

\* ------------------------------------------------------------ the lock
LogEntry(action, n, user) ==
    [action |-> action, kind |-> kind[n], file |-> n, user |-> user,
     path |-> materialized_path(n)]

\* node.add_log(action=..., params=..., auth=Auth(user))
add_log(action, n, user) == Append(logs, LogEntry(action, n, user))

\* OsfStorageFile.save: the search index is told of the file.
IndexAfterSave(n) ==
    IF kind[n] = "file" THEN search_index \cup {n} ELSE search_index

\* A precondition of check_in_or_out that asks for write permission only.
CheckoutRefusedWriteOnly(n, user) == WRITE \notin perms[user]

\* The precondition of check_in_or_out: true when the call raises.
CheckoutRefused(n, user) ==
    \/ IsCheckedOut(n) /\ checkout[n] # user /\ ADMIN \notin perms[user]
    \/ WRITE \notin perms[user]

\* A transition test that lets a checked-out node be checked out again.
CheckoutTransitionAlways(n, action) == action \in {CHECKED_OUT, CHECKED_IN}

\* The test that decides whether check_in_or_out changes anything.
CheckoutTransition(n, action) ==
    \/ IsCheckedOut(n) /\ action = CHECKED_IN
    \/ ~IsCheckedOut(n) /\ action = CHECKED_OUT

\* OsfStorageFileNode.check_in_or_out(user, checkout, save); target is the
\* checkout argument: the requesting user, or None.
check_in_or_out(n, user, target, save) ==
    LET action == IF target # None THEN CHECKED_OUT ELSE CHECKED_IN
        call(res) == [op |-> "check_in_or_out", node |-> n, user |-> user,
                      arg |-> target, result |-> res]
    IN  /\ n \in live
        /\ target \in {user, None}
        /\ IF CheckoutRefused(n, user)
           THEN /\ last' = call(FileNodeCheckedOutError)
                /\ UNCHANGED <<checkout, stored_checkout, logs, search_index>>
           ELSE /\ last' = call(Ok)
                /\ IF CheckoutTransition(n, action)
                   THEN /\ Len(logs) < MaxLog
                        /\ checkout' = [checkout EXCEPT ![n] = target]
                        /\ logs' = add_log(action, n, user)
                        /\ IF save
                           THEN /\ stored_checkout' =
                                      [stored_checkout EXCEPT ![n] = target]
                                /\ search_index' = IndexAfterSave(n)
                           ELSE UNCHANGED <<stored_checkout, search_index>>
                   ELSE UNCHANGED <<checkout, stored_checkout, logs, search_index>>
        /\ UNCHANGED <<treeVars, perms, preprint_file, is_preprint_orphan,
                       is_registration, fileVars, settingsVars, guids, requestVars>>

\* A delete guard that lets the holder of the checkout through.
DeleteRefusedUnlessHolder(n, user) == IsCheckedOut(n) /\ checkout[n] # user

\* The guard of OsfStorageFileNode.delete: true when the call raises.
DeleteRefused(n, user) == IsCheckedOut(n)

\* The guard of OsfStorageFileNode.move_under: true when the call raises.
MoveRefused(n) == IsCheckedOut(n)

\* OsfStorageFile.delete: search.update_file(self, delete=True) comes first.
IndexAfterFileDelete(n) ==
    IF kind[n] = "file" THEN search_index \ {n} ELSE search_index

\* OsfStorageFileNode.delete: the preprint file's node is marked and saved.
OrphanAfterDelete(n) == is_preprint_orphan \/ preprint_file = n

\* FileNode.delete / Folder.delete: the node and, for a folder, all its
\* descendants become trashed records; each descendant is deleted through
\* its own delete, so files leave the search index and a preprint file
\* among them marks the node.
TrashedBy(n) == Subtree(n)

\* delete(user, parent) on a file or a folder
delete(n, user) ==
    LET call(res) == [op |-> "delete", node |-> n, user |-> user,
                      arg |-> None, result |-> res]
    IN  /\ n \in live
        /\ n # Root
        /\ IF DeleteRefused(n, user)
           THEN /\ last' = call(FileNodeCheckedOutError)
                /\ search_index' = IndexAfterFileDelete(n)
                /\ is_preprint_orphan' = OrphanAfterDelete(n)
                /\ UNCHANGED live
           ELSE /\ last' = call(Ok)
                /\ live' = live \ TrashedBy(n)
                /\ search_index' = search_index \ TrashedBy(n)
                /\ is_preprint_orphan' =
                       (is_preprint_orphan \/ preprint_file \in TrashedBy(n))
        /\ UNCHANGED <<kind, name, parent, perms, checkout, stored_checkout,
                       logs, preprint_file, is_registration, fileVars,
                       settingsVars, guids, requestVars>>

\* FileNode.move_under: the node gets its new parent and, when one is given,
\* its new name.
Moved(n, dest, nm) ==
    /\ parent' = [parent EXCEPT ![n] = dest]
    /\ name' = IF nm = NoName THEN name ELSE [name EXCEPT ![n] = nm]

\* OsfStorageFileNode.move_under(destination_parent, name)
move_under(n, dest, nm) ==
    LET call(res) == [op |-> "move_under", node |-> n, user |-> None,
                      arg |-> dest, result |-> res]
    IN  /\ n \in live
        /\ n # Root
        /\ dest \in live
        /\ kind[dest] = "folder"
        /\ dest \notin Subtree(n)
        /\ IF MoveRefused(n)
           THEN /\ last' = call(FileNodeCheckedOutError)
                /\ UNCHANGED <<parent, name>>
           ELSE /\ last' = call(Ok)
                /\ Moved(n, dest, nm)
        /\ UNCHANGED <<kind, live, lockVars, logs, search_index,
                       is_registration, fileVars, settingsVars, guids, requestVars>>

\* root_node when it is null
NoRoot == <<>>

\* The state the other components are left in while one is exercised.
IdleFile == versions = <<>> /\ tags = {} /\ tag_table = {}
IdleSettings ==
    /\ root_node = [s \in 1..NumSettings |-> NoRoot]
    /\ settings_saved = [s \in 1..NumSettings |-> FALSE]
    /\ folders = <<>>

\* No file has a Guid.
IdleGuids == guids = {}

\* No request is under way.
IdleRequests ==
    /\ pc = [u \in Users |-> "idle"]
    /\ req_checkout = [u \in Users |-> None]
    /\ req_target = [u \in Users |-> None]

\* A project with nothing checked out and its file indexed.
InitProject ==
    /\ kind = InitKind
    /\ name = InitName
    /\ checkout = [n \in Ids |-> None]
    /\ stored_checkout = [n \in Ids |-> None]
    /\ logs = <<>>
    /\ is_preprint_orphan = FALSE
    /\ search_index = {TheFile}
    /\ is_registration = FALSE
    /\ IdleFile
    /\ IdleSettings
    /\ IdleGuids
    /\ IdleRequests
    /\ last = NoCall

\* The storage tree is r/d/f; who may write or administer, and whether the
\* file is the project's preprint file, differ from project to project.
Init ==
    /\ InitProject
    /\ perms \in PermChoices
    /\ parent = ShallowParent
    /\ live = Ids \ {"e"}
    /\ preprint_file \in {None, TheFile}

Next ==
    \/ \E n \in Ids, user \in Users, target \in Users \cup {None}, save \in BOOLEAN :
           check_in_or_out(n, user, target, save)
    \/ \E n \in Ids, user \in Users : delete(n, user)
    \/ \E n \in Ids, dest \in Ids : move_under(n, dest, NoName)

Spec == Init /\ [][Next]_vars

\* The deeper tree r/d/e/f of a project with an admin and a writer, where
\* every checkout is saved at once.
InitDeep ==
    /\ InitProject
    /\ perms = AdminAndWriter
    /\ parent = DeepParent
    /\ live = Ids
    /\ preprint_file = None

NextDeep ==
    \/ \E n \in Ids, user \in Users, target \in Users \cup {None} :
           check_in_or_out(n, user, target, TRUE)
    \/ \E n \in Ids, user \in Users : delete(n, user)
    \/ \E n \in Ids, dest \in Ids : move_under(n, dest, NoName)

SpecDeep == InitDeep /\ [][NextDeep]_vars

\* ------------------------------------------------------- file versions
Locations == {[service |-> "cloud", object |-> "A"],
              [service |-> "cloud", object |-> "B"]}
\* The metadata argument: empty (None or {}), or one checksum.
Metadatas == {{}, {"md5"}}

\* FileVersion(identifier=..., creator=creator, location=location)
FileVersion(identifier, creator, location) ==
    [identifier |-> identifier, creator |-> creator, location |-> location,
     metadata |-> {}]

\* FileVersion.update_metadata
update_metadata(version, metadata) ==
    [version EXCEPT !.metadata = @ \cup metadata]

\* FileVersion.is_duplicate: the location descriptors are equal.
is_duplicate(a, b) == a.location = b.location

\* What selects a version: nothing, a number, or a string.
NoSelector == [tag |-> "none"]
IntSelector(i) == [tag |-> "int", val |-> i]
StrSelector(str) == [tag |-> "str", val |-> str]

Digits == <<"0", "1", "2", "3", "4", "5", "6", "7", "8", "9">>
IsDigit(c) == \E i \in 1..10 : Digits[i] = c
DigitValue(c) == (CHOOSE i \in 1..10 : Digits[i] = c) - 1

RECURSIVE Decimal(_)
Decimal(str) ==
    IF str = <<>> THEN 0
    ELSE 10 * Decimal(SubSeq(str, 1, Len(str) - 1)) + DigitValue(str[Len(str)])

\* int(version): whether it raises ValueError, and its value when not
IntRaises(sel) ==
    /\ sel.tag = "str"
    /\ LET body == IF sel.val # <<>> /\ sel.val[1] = "-" THEN Tail(sel.val)
                   ELSE sel.val
       IN  body = <<>> \/ \E i \in 1..Len(body) : ~IsDigit(body[i])
IntOf(sel) ==
    IF sel.tag = "int" THEN sel.val
    ELSE IF sel.val[1] = "-" THEN 0 - Decimal(Tail(sel.val))
    ELSE Decimal(sel.val)

\* seq[i] of a Python list, 0-based, negative i counted from the end; the
\* empty sequence stands for IndexError.
ListIndex(seq, i) ==
    IF 0 <= i /\ i < Len(seq) THEN <<seq[i + 1]>>
    ELSE IF 0 - Len(seq) <= i /\ i < 0 THEN <<seq[Len(seq) + i + 1]>>
    ELSE <<>>

\* OsfStorageFile.get_version(version, required): result is Ok or the
\* exception raised, value the version returned (empty for None).
GetVersion(sel, required) ==
    IF sel.tag = "none"
    THEN [result |-> Ok,
          value |-> IF versions # <<>> THEN <<versions[Len(versions)]>> ELSE <<>>]
    ELSE LET found == IF IntRaises(sel) THEN <<>>
                      ELSE ListIndex(versions, IntOf(sel) - 1)
         IN  IF found # <<>> THEN [result |-> Ok, value |-> found]
             ELSE IF required
                  THEN [result |-> VersionNotFoundError, value |-> <<>>]
                  ELSE [result |-> Ok, value |-> <<>>]

get_version(sel, required) ==
    /\ last' = [op |-> "get_version", node |-> TheFile, user |-> None,
                arg |-> [version |-> sel, required |-> required],
                result |-> GetVersion(sel, required).result,
                value |-> GetVersion(sel, required).value]
    /\ UNCHANGED <<treeVars, lockVars, logs, search_index, is_registration,
                   fileVars, settingsVars, guids, requestVars>>

\* An identifier that starts counting at zero.
NextIdentifierFromZero == Len(versions)

\* identifier=len(self.versions) + 1
NextIdentifier == Len(versions) + 1

\* A duplicate test that also wants the identifiers to agree.
DuplicateOfLatestSameId(latest, version) ==
    latest # <<>> /\ latest[1] = version

\* latest_version and latest_version.is_duplicate(version)
DuplicateOfLatest(latest, version) ==
    latest # <<>> /\ is_duplicate(latest[1], version)

\* OsfStorageFile.create_version(creator, location, metadata).  The lookup
\* version._find_matching_archive(save=False) changes nothing kept here.
create_version(creator, location, metadata) ==
    LET latest == GetVersion(NoSelector, FALSE).value
        version == FileVersion(NextIdentifier, creator, location)
        stored == IF metadata # {} THEN update_metadata(version, metadata)
                  ELSE version
        call(v) == [op |-> "create_version", node |-> TheFile, user |-> creator,
                    arg |-> [location |-> location, metadata |-> metadata],
                    result |-> Ok, value |-> <<v>>]
    IN  /\ IF DuplicateOfLatest(latest, version)
           THEN /\ last' = call(latest[1])
                /\ UNCHANGED <<versions, search_index>>
           ELSE /\ Len(versions) < MaxVersions
                /\ versions' = Append(versions, stored)
                /\ search_index' = IndexAfterSave(TheFile)
                /\ last' = call(stored)
        /\ UNCHANGED <<treeVars, lockVars, logs, is_registration, tags,
                       tag_table, settingsVars, guids, requestVars>>

IntSelectors == (0 - MaxVersions - 1)..(MaxVersions + 1)
StrSelectors == {<<"2">>, <<"-", "1">>, <<"1", "0">>, <<"x">>, <<>>}
Selectors ==
    {NoSelector} \cup {IntSelector(i) : i \in IntSelectors}
        \cup {StrSelector(str) : str \in StrSelectors}

\* A file that is new, or has its first version; it may have been saved
\* with skip_search and so not be in the search index.
InitVersions ==
    /\ kind = InitKind
    /\ name = InitName
    /\ parent = ShallowParent
    /\ live = Ids \ {"e"}
    /\ perms = AdminAndWriter
    /\ checkout = [n \in Ids |-> None]
    /\ stored_checkout = [n \in Ids |-> None]
    /\ logs = <<>>
    /\ preprint_file = None
    /\ is_preprint_orphan = FALSE
    /\ search_index \in {{}, {TheFile}}
    /\ is_registration = FALSE
    /\ versions \in {<<>>} \cup
           {<<update_metadata(FileVersion(1, "u1", l), m)>> :
                l \in Locations, m \in Metadatas}
    /\ tags = {}
    /\ tag_table = {}
    /\ IdleSettings
    /\ IdleGuids
    /\ IdleRequests
    /\ last = NoCall

NextVersions ==
    \/ \E creator \in Users, location \in Locations, metadata \in Metadatas :
           create_version(creator, location, metadata)
    \/ \E sel \in Selectors, required \in BOOLEAN : get_version(sel, required)

SpecVersions == InitVersions /\ [][NextVersions]_vars

\* ----------------------------------------------------------- file tags
TagIds == {"t1", "t2"}

\* OsfStorageFile.add_tag_log
add_tag_log(action, tag, user) ==
    Append(logs, [action |-> action, kind |-> "file", file |-> TheFile,
                  user |-> user, path |-> materialized_path(TheFile),
                  tag |-> tag])

\* tag not in self.tags and not self.node.is_registration
AddTagApplies(tag) == tag \notin tags /\ ~is_registration

\* OsfStorageFile.add_tag(tag, auth, save, log): returns True or False.
add_tag(tag, user, save, log) ==
    LET call(v) == [op |-> "add_tag", node |-> TheFile, user |-> user,
                    arg |-> [tag |-> tag, save |-> save, log |-> log],
                    result |-> Ok, value |-> <<v>>]
    IN  /\ IF AddTagApplies(tag)
           THEN /\ tag_table' = tag_table \cup {tag}
                /\ tags' = tags \cup {tag}
                /\ IF log
                   THEN /\ Len(logs) < MaxLog
                        /\ logs' = add_tag_log(FILE_TAG_ADDED, tag, user)
                   ELSE UNCHANGED logs
                /\ search_index' =
                       (IF save THEN IndexAfterSave(TheFile) ELSE search_index)
                /\ last' = call(TRUE)
           ELSE /\ last' = call(FALSE)
                /\ UNCHANGED <<tag_table, tags, logs, search_index>>
        /\ UNCHANGED <<treeVars, lockVars, is_registration, versions,
                       settingsVars, guids, requestVars>>

\* A remove_tag that looks the tag up before it looks at the registration.
RemoveTagErrorTagFirst(tag) ==
    IF tag \notin tag_table THEN InvalidTagError
    ELSE IF tag \notin tags THEN TagNotFoundError
    ELSE IF is_registration THEN NodeStateError
    ELSE Ok

\* The exception remove_tag raises, or Ok when it raises none.
RemoveTagError(tag) ==
    IF is_registration THEN NodeStateError
    ELSE IF tag \notin tag_table THEN InvalidTagError
    ELSE IF tag \notin tags THEN TagNotFoundError
    ELSE Ok

\* OsfStorageFile.remove_tag(tag, auth, save, log)
remove_tag(tag, user, save, log) ==
    LET call(res, v) == [op |-> "remove_tag", node |-> TheFile, user |-> user,
                         arg |-> [tag |-> tag, save |-> save, log |-> log],
                         result |-> res, value |-> v]
    IN  /\ IF RemoveTagError(tag) = Ok
           THEN /\ tags' = tags \ {tag}
                /\ IF log
                   THEN /\ Len(logs) < MaxLog
                        /\ logs' = add_tag_log(FILE_TAG_REMOVED, tag, user)
                   ELSE UNCHANGED logs
                /\ search_index' =
                       (IF save THEN IndexAfterSave(TheFile) ELSE search_index)
                /\ last' = call(Ok, <<TRUE>>)
           ELSE /\ last' = call(RemoveTagError(tag), <<>>)
                /\ UNCHANGED <<tags, logs, search_index>>
        /\ UNCHANGED <<treeVars, lockVars, is_registration, versions,
                       tag_table, settingsVars, guids, requestVars>>

\* A file of a project or of a registration, with whatever tags it was
\* given before; every tag of the file is a Tag that exists.
InitTags ==
    /\ kind = InitKind
    /\ name = InitName
    /\ parent = ShallowParent
    /\ live = Ids \ {"e"}
    /\ perms = AdminAndWriter
    /\ checkout = [n \in Ids |-> None]
    /\ stored_checkout = [n \in Ids |-> None]
    /\ logs = <<>>
    /\ preprint_file = None
    /\ is_preprint_orphan = FALSE
    /\ search_index \in {{}, {TheFile}}
    /\ is_registration \in BOOLEAN
    /\ versions = <<>>
    /\ tag_table \in SUBSET TagIds
    /\ tags \in SUBSET tag_table
    /\ IdleSettings
    /\ IdleGuids
    /\ IdleRequests
    /\ last = NoCall

NextTags ==
    \/ \E tag \in TagIds, user \in Users, save \in BOOLEAN, log \in BOOLEAN :
           add_tag(tag, user, save, log)
    \/ \E tag \in TagIds, user \in Users, save \in BOOLEAN, log \in BOOLEAN :
           remove_tag(tag, user, save, log)

SpecTags == InitTags /\ [][NextTags]_vars

\* --------------------------------------------------- moves and renames
\* The names a file or folder is given: not empty, without a slash.
Names == {<<"a">>, <<"b", "c">>}

\* The tree r/d/e/f of a project where nothing is checked out.
InitPath ==
    /\ InitProject
    /\ perms = AdminAndWriter
    /\ parent = DeepParent
    /\ live = Ids
    /\ preprint_file = None

NextPath ==
    \/ \E n \in Ids, dest \in Ids, nm \in Names \cup {NoName} :
           move_under(n, dest, nm)
    \/ \E n \in Ids, user \in Users : delete(n, user)

SpecPath == InitPath /\ [][NextPath]_vars

\* ------------------------------------------------------- NodeSettings
SettingsIds == 1..NumSettings
\* self.owner: every settings instance belongs to a project of its own
Owner(s) == <<"project", s>>

\* An on_add that does not look for a root first.
OnAddAppliesAlways(s) == TRUE

\* on_add goes on unless self.root_node is set
OnAddApplies(s) == root_node[s] = NoRoot

\* OsfStorageFolder(name='', node=self.owner)
RootFolder(s) == [name |-> <<>>, node |-> Owner(s)]

\* NodeSettings.on_add: self.save(), the root folder is created and saved,
\* attached, and self saved again.
on_add(s) ==
    /\ last' = [op |-> "on_add", node |-> s, user |-> None, arg |-> None,
                result |-> Ok]
    /\ IF OnAddApplies(s)
       THEN /\ settings_saved' = [settings_saved EXCEPT ![s] = TRUE]
            /\ folders' = Append(folders, RootFolder(s))
            /\ root_node' = [root_node EXCEPT ![s] = <<Len(folders) + 1>>]
       ELSE UNCHANGED <<settings_saved, folders, root_node>>
    /\ UNCHANGED <<treeVars, lockVars, logs, search_index, is_registration,
                   fileVars, guids, requestVars>>

\* NodeSettings.save, as the code around on_add calls it
save_settings(s) ==
    /\ last' = [op |-> "save", node |-> s, user |-> None, arg |-> None,
                result |-> Ok]
    /\ settings_saved' = [settings_saved EXCEPT ![s] = TRUE]
    /\ UNCHANGED <<treeVars, lockVars, logs, search_index, is_registration,
                   fileVars, folders, root_node, guids, requestVars>>

\* Settings instances just made: not saved, without a root.
InitSettings ==
    /\ kind = InitKind
    /\ name = InitName
    /\ parent = ShallowParent
    /\ live = Ids \ {"e"}
    /\ perms = AdminAndWriter
    /\ checkout = [n \in Ids |-> None]
    /\ stored_checkout = [n \in Ids |-> None]
    /\ logs = <<>>
    /\ preprint_file = None
    /\ is_preprint_orphan = FALSE
    /\ search_index = {TheFile}
    /\ is_registration = FALSE
    /\ IdleFile
    /\ IdleSettings
    /\ IdleGuids
    /\ IdleRequests
    /\ last = NoCall

NextSettings ==
    \/ \E s \in SettingsIds : on_add(s)
    \/ \E s \in SettingsIds : save_settings(s)

SpecSettings == InitSettings /\ [][NextSettings]_vars

\* ------------------------------------------------ identifier collection
AttributeError == "AttributeError"

\* An id under which no file node was ever stored.
NoSuchId == "x"

\* OsfStorageFileNode.path: '/' + _id, with a closing '/' for a folder
path(n) == <<"/", n>> \o (IF kind[n] = "file" THEN <<>> ELSE <<"/">>)

RECURSIVE LStrip(_)
\* str.lstrip('/')
LStrip(p) == IF p # <<>> /\ Head(p) = "/" THEN LStrip(Tail(p)) ELSE p

RECURSIVE RStrip(_)
\* str.rstrip('/')
RStrip(p) ==
    IF p # <<>> /\ p[Len(p)] = "/" THEN RStrip(SubSeq(p, 1, Len(p) - 1)) ELSE p

\* str.strip('/')
Strip(p) == RStrip(LStrip(p))

\* The TrashedFileNode records: a deleted node keeps its id, its kind and
\* its parent linkage.
Trashed == {n \in Ids \ live : parent[n] # None}

\* cls.load(path): the live file node whose _id is path, or None
load(p) == IF Len(p) = 1 /\ p[1] \in live THEN p[1] ELSE None

\* TrashedFileNode.load(path): the trashed record whose _id is path, or None
TrashedLoad(p) == IF Len(p) = 1 /\ p[1] \in Trashed THEN p[1] ELSE None

\* TrashedFileNode.find(Q('parent', 'eq', file_obj._id))
TrashedChildren(n) == {c \in Trashed : parent[c] = n}

\* guid._id of the Guid that refers to file n
GuidOf(n) == <<"guid", n>>

\* how a call of get_file_guids ends: with a list, or with an exception
Returned(v) == [result |-> Ok, value |-> v]
Raised(e) == [result |-> e, value |-> {}]

RECURSIVE FileGuids(_)
\* The body of get_file_guids(materialized_path, provider, node). The list
\* it returns never holds an identifier twice and its order is the order
\* of the children queries, so it is kept as a set.
FileGuids(mpath) ==
    LET p == Strip(mpath)
        found == load(p)
        file_obj == IF found # None THEN found ELSE TrashedLoad(p)
    IN  IF file_obj = None
        THEN Raised(AttributeError)
        ELSE IF kind[file_obj] # "file"
        THEN LET items == IF found = None THEN TrashedChildren(file_obj)
                          ELSE children(file_obj)
                 calls == {FileGuids(path(item)) : item \in items}
             IN  IF \E c \in calls : c.result # Ok
                 THEN CHOOSE c \in calls : c.result # Ok
                 ELSE Returned(UNION {c.value : c \in calls})
        ELSE Returned(IF file_obj \in guids THEN {GuidOf(file_obj)} ELSE {})

\* OsfStorageFileNode.get_file_guids(materialized_path, provider)
get_file_guids(mpath) ==
    LET r == FileGuids(mpath)
    IN  /\ last' = [op |-> "get_file_guids", node |-> None, user |-> None,
                    arg |-> None, path |-> mpath,
                    result |-> r.result, value |-> r.value]
        /\ UNCHANGED <<treeVars, lockVars, logs, search_index, is_registration,
                       fileVars, settingsVars, guids, requestVars>>

\* The paths get_file_guids is called with: '/<id>', '/<id>/' and '<id>'
\* for the id of every node and for an id no node has, and the empty path.
Paths ==
    {<<>>} \cup UNION {{<<"/", i>>, <<"/", i, "/">>, <<i>>} :
                           i \in Ids \cup {NoSuchId}}

\* The tree r/d/e/f of a project whose file has a Guid or has none.
InitGuids ==
    /\ kind = InitKind
    /\ name = InitName
    /\ parent = DeepParent
    /\ live = Ids
    /\ perms = AdminAndWriter
    /\ checkout = [n \in Ids |-> None]
    /\ stored_checkout = [n \in Ids |-> None]
    /\ logs = <<>>
    /\ preprint_file = None
    /\ is_preprint_orphan = FALSE
    /\ search_index = {TheFile}
    /\ is_registration = FALSE
    /\ IdleFile
    /\ IdleSettings
    /\ guids \in SUBSET {TheFile}
    /\ IdleRequests
    /\ last = NoCall

NextGuids ==
    \/ \E mpath \in Paths : get_file_guids(mpath)
    \/ \E n \in Ids, user \in Users : delete(n, user)
    \/ \E n \in Ids, dest \in Ids : move_under(n, dest, NoName)

SpecGuids == InitGuids /\ [][NextGuids]_vars

\* -------------------------------------------------- concurrent requests
\* Two requests, one per user, each running check_in_or_out(user, checkout,
\* save=True) on the file f. A request works on the object it loaded: the
\* code takes no lock and opens no transaction, so the steps of the two
\* requests interleave between the load and the save.

\* Both users may write, neither is an admin.
BothWriters == [u \in Users |-> {READ, WRITE}]

\* the condition of check_in_or_out's first statement, on the request's object
RequestRefused(user) ==
    \/ /\ req_checkout[user] # None
       /\ req_checkout[user] # user
       /\ ADMIN \notin perms[user]
    \/ WRITE \notin perms[user]

\* the condition under which the request's check_in_or_out changes the checkout
RequestTransition(user, action) ==
    \/ req_checkout[user] # None /\ action = CHECKED_IN
    \/ req_checkout[user] = None /\ action = CHECKED_OUT

\* The request handler loads the file node and calls check_in_or_out on it.
LoadRequest(user, target) ==
    /\ pc[user] = "idle"
    /\ target \in {user, None}
    /\ TheFile \in live
    /\ pc' = [pc EXCEPT ![user] = "loaded"]
    /\ req_checkout' = [req_checkout EXCEPT ![user] = stored_checkout[TheFile]]
    /\ req_target' = [req_target EXCEPT ![user] = target]
    /\ UNCHANGED <<treeVars, lockVars, logs, search_index, is_registration,
                   fileVars, settingsVars, guids, last>>

\* check_in_or_out, its first statement: the precondition on the holder
CheckRequest(user) ==
    /\ pc[user] = "loaded"
    /\ IF RequestRefused(user)
       THEN /\ pc' = [pc EXCEPT ![user] = "raised"]
            /\ last' = [op |-> "check_in_or_out", node |-> TheFile,
                        user |-> user, arg |-> req_target[user],
                        result |-> FileNodeCheckedOutError]
       ELSE /\ pc' = [pc EXCEPT ![user] = "checked"]
            /\ UNCHANGED last
    /\ UNCHANGED <<treeVars, lockVars, logs, search_index, is_registration,
                   fileVars, settingsVars, guids, req_checkout, req_target>>

\* check_in_or_out, the rest: the checkout is set, logged and saved
WriteRequest(user) ==
    LET target == req_target[user]
        action == IF target # None THEN CHECKED_OUT ELSE CHECKED_IN
    IN  /\ pc[user] = "checked"
        /\ pc' = [pc EXCEPT ![user] = "returned"]
        /\ last' = [op |-> "check_in_or_out", node |-> TheFile, user |-> user,
                    arg |-> target, result |-> Ok]
        /\ IF RequestTransition(user, action)
           THEN /\ Len(logs) < MaxLog
                /\ req_checkout' = [req_checkout EXCEPT ![user] = target]
                /\ logs' = add_log(action, TheFile, user)
                /\ stored_checkout' =
                       [stored_checkout EXCEPT ![TheFile] = target]
                /\ search_index' = IndexAfterSave(TheFile)
           ELSE UNCHANGED <<req_checkout, logs, stored_checkout, search_index>>
        /\ UNCHANGED <<treeVars, perms, checkout, preprint_file,
                       is_preprint_orphan, is_registration, fileVars,
                       settingsVars, guids, req_target>>

\* The request is over and its object is dropped.
EndRequest(user) ==
    /\ pc[user] \in {"returned", "raised"}
    /\ pc' = [pc EXCEPT ![user] = "idle"]
    /\ req_checkout' = [req_checkout EXCEPT ![user] = None]
    /\ req_target' = [req_target EXCEPT ![user] = None]
    /\ UNCHANGED <<treeVars, lockVars, logs, search_index, is_registration,
                   fileVars, settingsVars, guids, last>>

\* The tree r/d/f of a project with two writers, nothing checked out.
InitRace ==
    /\ InitProject
    /\ perms = BothWriters
    /\ parent = ShallowParent
    /\ live = Ids \ {"e"}
    /\ preprint_file = None

NextRace ==
    \/ \E user \in Users, target \in Users \cup {None} : LoadRequest(user, target)
    \/ \E user \in Users : CheckRequest(user)
    \/ \E user \in Users : WriteRequest(user)
    \/ \E user \in Users : EndRequest(user)

SpecRace == InitRace /\ [][NextRace]_vars

\* ---------------------------------------------------------- properties
RECURSIVE AncestorsOrSelf(_)
AncestorsOrSelf(n) ==
    IF parent[n] = None THEN {n} ELSE {n} \cup AncestorsOrSelf(parent[n])

\* n and the live nodes below it, at any depth
Below(n) == {m \in live : n \in AncestorsOrSelf(m)}

\* n or a node below it is checked out, by anyone
HeldBelow(n) == \E m \in Below(n) : checkout[m] # None

\* n or a node below it is checked out by someone other than user
HeldByOtherBelow(n, user) == \E m \in Below(n) : checkout[m] \notin {None, user}

LoggedCheckout(n, user) ==
    \E i \in 1..Len(logs) :
        logs[i].action = CHECKED_OUT /\ logs[i].file = n /\ logs[i].user = user

\* C1: a user with write permission who checks out a node that is not
\* checked out gets the checkout; while a node is checked out to someone,
\* every check_in_or_out on it by another user who is no admin raises
\* FileNodeCheckedOutError and leaves every checkout and the log as they were.
C1_CheckoutThenConflict ==
    [][last'.op = "check_in_or_out" =>
        LET n == last'.node
            u == last'.user
        IN  /\ (last'.arg = u /\ ~HeldBelow(n) /\ WRITE \in perms[u])
                => (last'.result = Ok /\ checkout'[n] = u)
            /\ (checkout[n] \notin {None, u} /\ ADMIN \notin perms[u])
                => (/\ last'.result = FileNodeCheckedOutError
                    /\ checkout' = checkout
                    /\ logs' = logs)
      ]_vars

\* A writer without admin permission was refused on a node that another
\* writer had checked out before.
C1_Witness ==
    /\ last.op = "check_in_or_out"
    /\ last.result = FileNodeCheckedOutError
    /\ checkout[last.node] \notin {None, last.user}
    /\ LoggedCheckout(last.node, checkout[last.node])
    /\ WRITE \in perms[last.user]
    /\ ADMIN \notin perms[last.user]

\* C2 as claimed: a delete is refused only when the node, or a node below
\* it, is checked out by someone other than the user who deletes.
C2_RefusedOnlyForOthers ==
    (last.op = "delete" /\ last.result = FileNodeCheckedOutError)
        => HeldByOtherBelow(last.node, last.user)

\* C2, amended: delete and move_under raise FileNodeCheckedOutError exactly
\* when the node, or for a folder a node below it, is checked out by any
\* user, the one who deletes included; a refused call leaves the tree as it
\* was, and a call that is not refused trashes or moves the node.
C2_RefusedWheneverCheckedOut ==
    [][LET n == last'.node
       IN  /\ last'.op = "delete" =>
                /\ (last'.result = FileNodeCheckedOutError) <=> HeldBelow(n)
                /\ HeldBelow(n) => (live' = live /\ parent' = parent)
                /\ ~HeldBelow(n) => n \notin live'
           /\ last'.op = "move_under" =>
                /\ (last'.result = FileNodeCheckedOutError) <=> HeldBelow(n)
                /\ HeldBelow(n) => (live' = live /\ parent' = parent)
                /\ ~HeldBelow(n) => parent'[n] = last'.arg
      ]_vars

\* The holder of a file's checkout tried to delete it and was refused.
C2_Witness ==
    /\ last.op = "delete"
    /\ last.result = FileNodeCheckedOutError
    /\ checkout[last.node] = last.user
    /\ last.node \in live

C8_FolderCheckedOutIffAnyDescendant ==
    /\ \A n \in live :
           kind[n] = "folder" =>
               (IsCheckedOut(n) <=>
                   (checkout[n] # None
                       \/ \E m \in Below(n) \ {n} : checkout[m] # None))
    /\ (/\ last.op \in {"delete", "move_under"}
        /\ last.node \in live
        /\ kind[last.node] = "folder"
        /\ \E m \in Below(last.node) \ {last.node} : checkout[m] # None)
       => last.result = FileNodeCheckedOutError

\* The delete of a folder was refused because the file two levels below it
\* is checked out, the folder itself and the folder between being free.
C8_Witness ==
    /\ last.op = "delete"
    /\ last.result = FileNodeCheckedOutError
    /\ kind[last.node] = "folder"
    /\ checkout[last.node] = None
    /\ \E m \in live, c \in live :
           /\ kind[m] = "folder" /\ checkout[m] = None
           /\ parent[m] = last.node
           /\ parent[c] = m
           /\ checkout[c] # None

\* C4 as claimed: get_version(n) returns the nth version for n in 1..count;
\* for every other number it returns None, or raises VersionNotFoundError
\* when required is set; with no selector it returns the latest version, or
\* None when there is none.
C4_OutOfRangeIsAbsent ==
    last.op = "get_version" =>
        LET sel == last.arg.version
            count == Len(versions)
        IN  /\ sel.tag = "none" =>
                  /\ last.result = Ok
                  /\ last.value =
                        (IF count > 0 THEN <<versions[count]>> ELSE <<>>)
            /\ (sel.tag = "int" /\ sel.val \in 1..count) =>
                  (last.result = Ok /\ last.value = <<versions[sel.val]>>)
            /\ (sel.tag = "int" /\ sel.val \notin 1..count) =>
                  IF last.arg.required
                  THEN last.result = VersionNotFoundError
                  ELSE last.result = Ok /\ last.value = <<>>

\* C5: create_version with the location of the file's latest version
\* returns that version and leaves the versions and the search index as
\* they were (nothing appended, nothing saved); with any other location it
\* appends the version it returns. So no two neighbours in the sequence
\* share a location, and locA, locA, locB on a new file leave two versions.
C5_DuplicateReturnsLatest ==
    [][last'.op = "create_version" =>
        LET count == Len(versions)
            loc == last'.arg.location
        IN  /\ IF count > 0 /\ versions[count].location = loc
               THEN /\ versions' = versions
                    /\ search_index' = search_index
                    /\ last'.value = <<versions[count]>>
               ELSE /\ Len(versions') = count + 1
                    /\ last'.value = <<versions'[count + 1]>>
                    /\ versions'[count + 1].location = loc
                    /\ versions'[count + 1].identifier = count + 1
            /\ \A i \in 1..(Len(versions') - 1) :
                   versions'[i].location # versions'[i + 1].location
      ]_vars

\* The second of two users who upload to the same location got the first
\* user's version 1 back, and the file, never saved with the search index
\* told, is still not in the index.
C5_Witness ==
    /\ last.op = "create_version"
    /\ Len(versions) = 1
    /\ last.arg.location = versions[1].location
    /\ last.value = <<versions[1]>>
    /\ last.user # versions[1].creator
    /\ TheFile \notin search_index

\* C6: through every create_version the versions already stored stay where
\* they are, the count grows by one when the call is no duplicate of the
\* latest version and by nothing when it is, and the version at position i
\* has identifier i.
C6_AppendOnlyDense ==
    [][last'.op = "create_version" =>
        LET count == Len(versions)
            dup == count > 0 /\ is_duplicate(versions[count], last'.arg)
        IN  /\ Len(versions') = (IF dup THEN count ELSE count + 1)
            /\ SubSeq(versions', 1, count) = versions
            /\ \A i \in 1..Len(versions') : versions'[i].identifier = i
      ]_vars

\* Three versions are stored, the last by the call just made.
C6_Witness ==
    /\ last.op = "create_version"
    /\ Len(versions) = 3
    /\ last.value = <<versions[3]>>
    /\ \A i \in 1..3 : versions[i].identifier = i

\* C7: on a registration no add_tag and no remove_tag changes the tags of
\* the file: add_tag returns False, attaches nothing, creates no Tag and
\* logs nothing, and remove_tag raises NodeStateError whether the tag is on
\* the file, exists without being on it, or does not exist.
C7_RegistrationTagsFrozen ==
    [][is_registration =>
        /\ tags' = tags
        /\ last'.op = "add_tag" =>
               /\ last'.value = <<FALSE>>
               /\ tag_table' = tag_table
               /\ logs' = logs
        /\ last'.op = "remove_tag" => last'.result = NodeStateError
      ]_vars

\* remove_tag raised NodeStateError on a registration for a tag that does
\* not exist, while the file carries another tag.
C7_Witness ==
    /\ is_registration
    /\ last.op = "remove_tag"
    /\ last.result = NodeStateError
    /\ last.arg.tag \notin tag_table
    /\ tags # {}

RECURSIVE JoinWithSlash(_)
\* the names, with a slash between each two
JoinWithSlash(names) ==
    IF names = <<>> THEN <<>>
    ELSE IF Len(names) = 1 THEN names[1]
    ELSE names[1] \o <<"/">> \o JoinWithSlash(Tail(names))

RECURSIVE NamesFromRoot(_)
\* the names of the ancestors of n below the root, topmost first, then n's
NamesFromRoot(n) ==
    IF parent[n] = None THEN <<>>
    ELSE Append(NamesFromRoot(parent[n]), name[n])

\* C9: the materialized path of every node of the tree is a slash, then the
\* names of its ancestors below the root and its own, joined by slashes,
\* then a slash more if the node is a folder; the root's is "/".
C9_PathIsJoinedNames ==
    \A n \in live :
        materialized_path(n) =
            (IF n = Root THEN <<"/">>
             ELSE <<"/">> \o JoinWithSlash(NamesFromRoot(n))
                      \o (IF kind[n] = "folder" THEN <<"/">> ELSE <<>>))

\* After moves that rename, the file lies three levels down at /a/bc/a,
\* in the folder /a/bc/.
C9_Witness ==
    /\ last.op = "move_under"
    /\ last.result = Ok
    /\ TheFile \in live
    /\ Len(lineage(TheFile)) = 4
    /\ materialized_path(TheFile) =
           <<"/", "a", "/", "b", "c", "/", "a">>
    /\ materialized_path(parent[TheFile]) =
           <<"/", "a", "/", "b", "c", "/">>

\* the folders on_add has created for the project of settings instance s
RootsOf(s) == {i \in 1..Len(folders) : folders[i].node = Owner(s)}

\* C10: the first on_add on a settings instance without a root creates one
\* folder, named with the empty string and owned by the instance's project,
\* and attaches it; every on_add after that changes nothing. So an instance
\* on which on_add was called has exactly one root folder, one without has
\* none, and a root once attached is never replaced.
C10_OnAddIdempotent ==
    [][/\ last'.op = "on_add" =>
            LET s == last'.node
            IN  IF root_node[s] = NoRoot
                THEN /\ folders' = Append(folders, [name |-> <<>>,
                                                    node |-> Owner(s)])
                     /\ root_node' = [root_node EXCEPT ![s] = <<Len(folders')>>]
                     /\ settings_saved'[s]
                ELSE UNCHANGED <<folders, root_node, settings_saved>>
       /\ \A s \in SettingsIds :
            /\ root_node[s] # NoRoot => root_node'[s] = root_node[s]
            /\ Cardinality(RootsOf(s))' =
                   (IF root_node'[s] = NoRoot THEN 0 ELSE 1)
            /\ root_node'[s] # NoRoot => RootsOf(s)' = {root_node'[s][1]}
      ]_vars

\* on_add was called on an instance that had its root already, after the
\* other instances had got theirs; it still has the one root.
C10_Witness ==
    /\ last.op = "on_add"
    /\ Len(folders) = NumSettings
    /\ root_node[last.node] # NoRoot
    /\ root_node[last.node][1] < Len(folders)
    /\ RootsOf(last.node) = {root_node[last.node][1]}

\* C14: a delete that raises FileNodeCheckedOutError leaves all state as it
\* was: the project's preprint-orphan flag keeps its value, also when the
\* node is the project's preprint file, and the search index keeps the file.
C14_FailedDeleteChangesNothing ==
    [][(last'.op = "delete" /\ last'.result = FileNodeCheckedOutError) =>
        /\ is_preprint_orphan' = is_preprint_orphan
        /\ search_index' = search_index
        /\ UNCHANGED <<treeVars, lockVars, logs, is_registration, fileVars,
                       settingsVars, guids, requestVars>>
      ]_vars

\* the checkout the log gives node n: the holder named by the last
\* checked_out / checked_in entry written for n, None before any entry
LoggedHolder(n) ==
    LET mine == {i \in 1..Len(logs) : logs[i].file = n}
    IN  IF mine = {} THEN None
        ELSE LET i == CHOOSE k \in mine : \A j \in mine : j <= k
             IN  IF logs[i].action = CHECKED_OUT THEN logs[i].user ELSE None

\* C13: the change of a checkout and its log entry are atomic for every
\* value of save, the default save=False included: in every reachable state
\* a checked_out / checked_in entry exists for a transition if and only if
\* the transition's new checkout value has been persisted, so the persisted
\* checkout of every node is the one its last log entry gives.
C13_LogIffPersisted ==
    \A n \in Ids : stored_checkout[n] = LoggedHolder(n)

\* the path names neither a live file node nor a trashed record
Unresolved(p) == load(Strip(p)) = None /\ TrashedLoad(Strip(p)) = None

\* C11: get_file_guids for a path that resolves to neither a live node nor
\* a trashed record does not recurse and returns an empty result; it does
\* not fail.
C11_UnknownPathIsEmpty ==
    (last.op = "get_file_guids" /\ Unresolved(last.path))
        => (last.result = Ok /\ last.value = {})

\* C12: when two users with write but not admin permission concurrently
\* check out the same node that is not checked out, the check of the holder
\* and the write of the new holder are atomic: at most one of the two
\* attempts takes the checkout and emits a checked_out log entry, the other
\* fails with FileNodeCheckedOutError. So the two requests never have both
\* returned with the checkout taken, and the log never shows two users
\* taking the checkout of a node one after the other.
C12_OneCheckoutWins ==
    /\ ~(\A u \in Users : pc[u] = "returned" /\ req_checkout[u] = u)
    /\ \A i \in 1..(Len(logs) - 1) :
           ~(/\ logs[i].action = CHECKED_OUT
             /\ logs[i + 1].action = CHECKED_OUT
             /\ logs[i].file = logs[i + 1].file
             /\ logs[i].user # logs[i + 1].user)

====
